---- MODULE Spec2Model ----
(***************************************************************************)
(* Watch-party layout: the render-mode selection of WatchPartyLayoutInner, *)
(* the screen-share detection of useScreenShare and the drag / snap /      *)
(* swap behaviour of DraggablePiP, over a live session whose participants  *)
(* and track publications change underneath the view.                      *)
(***************************************************************************)
EXTENDS Integers, Sequences, FiniteSets, TLC

(* ------------------------------------------------------------------ *)
(* Bounds of the model                                                *)
(* ------------------------------------------------------------------ *)

\* window.innerWidth / window.innerHeight, in pixels
WinW == 40
WinH == 40

\* the participants the session may hold; "me" is the local participant
Local == "me"
Ids == {"me", "a", "b"}

\* the participants of a full room, for the thumbnail strip of Cinema mode
RoomIds == {"me", "a", "b", "c", "d", "e", "f", "g"}

\* the order in which the session lists its participants
Order == <<"me", "a", "b", "c", "d", "e", "f", "g">>

\* pointer positions (clientX, clientY) the pointer events may carry
Points == {<<4, 10>>, <<14, 10>>, <<15, 10>>, <<16, 10>>, <<10, 16>>}
PressPoints == {<<10, 10>>}

\* centres of the overlay's untranslated bounding box the browser may lay out.
\* The box is placed by the stylesheet inside the main content area, which the
\* chat panel narrows, while the quadrant is taken from the whole window: the
\* centre is therefore an input, not a function of pipCorner
RestCentres == {<<14, 16>>, <<26, 24>>}

\* the drafts typed into the compose box: blank ones, one to trim, ones that
\* look like JSON, one with a quote and a backslash
Drafts ==
    {<<>>,
     <<" ">>,
     <<" ", "h", "i", " ">>,
     <<"{", "\"", "t", "e", "x", "t", "\"", ":", "\"", "a", "\"", "}">>,
     <<"a", "\"", "\\">>,
     <<"5">>}

\* texts that are never typed as they are: with a line break, a JSON string,
\* the word null
Texts ==
    Drafts \cup {<<"a", "\n", "b">>, <<"\"", "h", "i", "\"">>, <<"n", "u", "l", "l">>}

\* payloads that are no JSON text, and JSON text with white space in it
PlainPayloads ==
    {<<>>,
     <<"h", "i">>,
     <<"t", "e", "x", "t">>,
     <<"{">>,
     <<"{", "\"", "t", "e", "x", "t", "\"", ":", "\"", "h", "i", "\"">>,
     <<" ", "{", "\"", "t", "e", "x", "t", "\"", " ", ":", " ", "\"", "h", "i", "\"", "}", "\n">>}

(* ------------------------------------------------------------------ *)
(* Program constants                                                  *)
(* ------------------------------------------------------------------ *)

DragThreshold == 5

\* the repository's two WatchPartyLayoutInner components: the one that only
\* knows the grid, and the one with the 1v1 PiP layout
GridOnly == "gridOnly"
WithPiP == "withPiP"
Layouts == {GridOnly, WithPiP}

Corners == {"tl", "tr", "bl", "br"}
Modes == {"Cinema", "GalleryGrid", "GalleryPiP", "GalleryEmpty"}

Camera == "Camera"
Microphone == "Microphone"
ScreenShare == "ScreenShare"
SourceOrder == <<Camera, Microphone, ScreenShare>>

None == "none"

\* livekit-client's ConnectionState and ConnectionQuality enumerations
Disconnected == "disconnected"
Connecting == "connecting"
Connected == "connected"
Reconnecting == "reconnecting"
SignalReconnecting == "signalReconnecting"
ConnectionStates == {Disconnected, Connecting, Connected, Reconnecting, SignalReconnecting}

Excellent == "excellent"
Good == "good"
Poor == "poor"
Lost == "lost"
Unknown == "unknown"
ConnectionQualities == {Excellent, Good, Poor, Lost, Unknown}

\* the value null, where a string is expected
null == "null"

\* cameraTracks.slice(0, 6) and cameraTracks.length > 6
MaxThumbnails == 6

\* an unset style.transform, and no rect read
Unset == <<>>

(* ------------------------------------------------------------------ *)
(* State                                                              *)
(* ------------------------------------------------------------------ *)

VARIABLES
    layout,              \* which WatchPartyLayoutInner is mounted
    participants,        \* useParticipants(): the participants in the room
    tracks,              \* the session's track publications (track references)
    thumbnailsCollapsed, \* useState(false)
    chatVisible,         \* useState(true)
    pipCorner,           \* useState('br')
    swapPiP,             \* useState(false)
    isDragging,          \* DraggablePiP: isDragging.current
    startPos,            \* DraggablePiP: startPos.current
    hasMoved,            \* DraggablePiP: hasMoved.current
    transform,           \* DraggablePiP: ref.current.style.transform
    maxDev,              \* history: largest |dx|, |dy| any move of the latest gesture had
    rectCenter,          \* history: centre of the rect read by the handler that just ran
    connectionState,     \* useConnectionState(): the room's transport state
    quality,             \* localParticipant.connectionQuality
    chatMessages,        \* useChat(): the messages of the room, in arrival order
    isSending,           \* useChat(): whether a send is under way
    chatInput,           \* useState('')
    replyingTo,          \* useState(null): <<>> for null, else <<the message>>
    showEmojiPicker,     \* useState(false)
    pending,             \* the payloads handed to send() whose promises have not settled
    outgoing,            \* history: what was written to the channel, and from what
    chatEntries          \* the CustomChatEntry elements mounted in the message list

vars == <<layout, participants, tracks, thumbnailsCollapsed, chatVisible, pipCorner,
          swapPiP, isDragging, startPos, hasMoved, transform, maxDev, rectCenter,
          connectionState, quality, chatMessages, isSending, chatInput, replyingTo,
          showEmojiPicker, pending, outgoing, chatEntries>>

room == <<connectionState, quality>>
compose == <<chatMessages, isSending, chatInput, replyingTo, showEmojiPicker, pending, outgoing>>
chat == <<compose, chatEntries>>

layoutState == <<layout, thumbnailsCollapsed, chatVisible, pipCorner, swapPiP>>
dragRefs == <<isDragging, startPos, hasMoved, transform>>
session == <<participants, tracks>>

Abs(n) == IF n < 0 THEN -n ELSE n
Max(m, n) == IF m < n THEN n ELSE m

\* a track reference: participant, source, publication.isSubscribed
TrackRef(p, s, sub) ==
    [participant |-> p, source |-> s, isSubscribed |-> sub, isLocal |-> (p = Local)]

HasTrack(p, s) == TrackRef(p, s, TRUE) \in tracks \/ TrackRef(p, s, FALSE) \in tracks
TrackOf(p, s) == IF TrackRef(p, s, TRUE) \in tracks THEN TrackRef(p, s, TRUE)
                                                  ELSE TrackRef(p, s, FALSE)

\* every track reference there can be, in the order the session lists them:
\* participant by participant, and source by source within a participant
AllTrackRefs ==
    [i \in 1..(Len(Order) * Len(SourceOrder) * 2) |->
        TrackRef(Order[((i - 1) \div (2 * Len(SourceOrder))) + 1],
                 SourceOrder[(((i - 1) \div 2) % Len(SourceOrder)) + 1],
                 (i - 1) % 2 = 1)]

\* useTracks(sources): the published tracks of the given sources, in order
useTracks(sources) ==
    SelectSeq(AllTrackRefs, LAMBDA t : t.source \in sources /\ t \in tracks)

Range(s) == {s[i] : i \in 1..Len(s)}

(* ------------------------------------------------------------------ *)
(* useScreenShare                                                     *)
(* ------------------------------------------------------------------ *)

screenShareTracks == useTracks({ScreenShare})

isScreenShareActive_LocalIgnored ==
    \E i \in 1..Len(screenShareTracks) : screenShareTracks[i].isSubscribed

isScreenShareActive ==
    \E i \in 1..Len(screenShareTracks) :
        screenShareTracks[i].isSubscribed \/ screenShareTracks[i].isLocal

participantCount == Cardinality(participants)

(* ------------------------------------------------------------------ *)
(* WatchPartyLayoutInner: the track lists read on each render         *)
(* ------------------------------------------------------------------ *)

screenShareTrackRefs == useTracks({ScreenShare})
micTrackRefs == useTracks({Microphone})
cameraTracks == useTracks({Camera})
participantTracks == useTracks({Camera, Microphone})

filteredParticipantTracks ==
    LET all == participantTracks
    IN  SelectSeq(all,
            LAMBDA track :
                IF track.source = Camera THEN TRUE
                ELSE IF track.source = Microphone
                     THEN ~(\E i \in 1..Len(all) :
                              /\ all[i].participant = track.participant
                              /\ all[i].source = Camera)
                     ELSE FALSE)

(* ------------------------------------------------------------------ *)
(* WatchPartyLayoutInner: which branch of the markup is rendered      *)
(* ------------------------------------------------------------------ *)

CinemaShown == isScreenShareActive /\ Len(screenShareTrackRefs) > 0

\* the ternary that picks the 1v1 PiP layout or the standard grid
galleryBranch_ByParticipantCount ==
    IF Len(filteredParticipantTracks) > 0
    THEN IF participantCount = 2 THEN "pip" ELSE "grid"
    ELSE None

galleryBranch ==
    LET n == Len(filteredParticipantTracks)
    IN  IF n > 0 THEN (IF n = 2 THEN "pip" ELSE "grid") ELSE None

\* the layout with PiP: grid, PiP overlay and "camera off" placeholder
gridRendered == galleryBranch = "grid"
pipRendered == galleryBranch = "pip"
cameraOffRendered == Len(filteredParticipantTracks) = 0 /\ participantCount = 1

\* the grid-only layout: grid and "camera off" placeholder
gridRendered_GridOnly == Len(cameraTracks) > 0
cameraOffRendered_GridOnly == Len(cameraTracks) = 0 /\ participantCount = 1

GridShown ==
    ~CinemaShown /\ (IF layout = WithPiP THEN gridRendered ELSE gridRendered_GridOnly)

PiPShown == ~CinemaShown /\ layout = WithPiP /\ pipRendered

EmptyShown ==
    ~CinemaShown /\
        (IF layout = WithPiP THEN cameraOffRendered ELSE cameraOffRendered_GridOnly)

RenderModes ==
    {m \in Modes :
        \/ m = "Cinema" /\ CinemaShown
        \/ m = "GalleryGrid" /\ GridShown
        \/ m = "GalleryPiP" /\ PiPShown
        \/ m = "GalleryEmpty" /\ EmptyShown}

\* the messages other participants send and the sends the user starts in one
\* run of the compose box
MaxMessages == 1
MaxSends == 2

\* the longest draft the emoji picker is used on, in UTF-16 code units, and
\* the emoji picked: the two code units of the grinning face U+1F600
MaxDraft == 6
Emoji == <<"D83D", "DE00">>

\* the messages that arrive while the list is watched, and their timestamps
MaxArrivals == 3
Timestamps == {1, 2}
ListPayloads ==
    {<<"h", "i">>,
     <<"{", "\"", "t", "e", "x", "t", "\"", ":", "\"", "a", "\"", "}">>,
     <<"{", "\"", "t", "e", "x", "t", "\"", ":", "{", "}", "}">>}

\* what is typed and what is received while sends come and go
ChatDrafts == {<<>>, <<" ">>, <<" ", "h", "i", " ">>}
ChatPayloads == {<<"{", "\"", "t", "e", "x", "t", "\"", ":", "\"", "a", "\"", "}">>}

(* ------------------------------------------------------------------ *)
(* Session callbacks                                                  *)
(* ------------------------------------------------------------------ *)

\* no message yet, an empty compose box
InitChat ==
    /\ chatMessages = <<>>
    /\ isSending = FALSE
    /\ chatInput = <<>>
    /\ replyingTo = <<>>
    /\ showEmojiPicker = FALSE
    /\ pending = <<>>
    /\ outgoing = <<>>
    /\ chatEntries = <<>>

\* the room before it connects
InitRoom ==
    /\ connectionState = Disconnected
    /\ quality = Unknown

InitDrag ==
    /\ isDragging = FALSE
    /\ startPos = <<0, 0>>
    /\ hasMoved = FALSE
    /\ transform = Unset
    /\ maxDev = 0
    /\ rectCenter = Unset

Init ==
    /\ layout \in Layouts
    /\ participants = {Local}
    /\ tracks = {}
    /\ thumbnailsCollapsed = FALSE
    /\ chatVisible = TRUE
    /\ pipCorner = "br"
    /\ swapPiP = FALSE
    /\ InitDrag
    /\ InitRoom
    /\ InitChat


\* DraggablePiP is mounted only while the 1v1 PiP layout is rendered; when a
\* re-render leaves that layout the component unmounts and its refs are lost,
\* and the next mount starts from fresh refs
Rerender ==
    /\ rectCenter' = Unset
    /\ IF PiPShown'
       THEN UNCHANGED <<dragRefs, maxDev>>
       ELSE /\ isDragging' = FALSE
            /\ startPos' = <<0, 0>>
            /\ hasMoved' = FALSE
            /\ transform' = Unset
            /\ maxDev' = 0

ParticipantConnected(p) ==
    /\ p \notin participants
    /\ participants' = participants \cup {p}
    /\ UNCHANGED <<tracks, layoutState>>
    /\ Rerender
    /\ UNCHANGED <<room, chat>>

ParticipantDisconnected(p) ==
    /\ p \in participants
    /\ p # Local
    /\ participants' = participants \ {p}
    /\ tracks' = {t \in tracks : t.participant # p}
    /\ UNCHANGED layoutState
    /\ Rerender
    /\ UNCHANGED <<room, chat>>

\* a camera or microphone track appears: the local one when published, a
\* remote one when subscribed
TrackPublished(p, s) ==
    /\ p \in participants
    /\ s \in {Camera, Microphone}
    /\ ~HasTrack(p, s)
    /\ tracks' = tracks \cup {TrackRef(p, s, p # Local)}
    /\ UNCHANGED <<participants, layoutState>>
    /\ Rerender
    /\ UNCHANGED <<room, chat>>

\* a screen-share track appears; a remote one may or may not be subscribed yet
ScreenSharePublished(p, sub) ==
    /\ p \in participants
    /\ ~HasTrack(p, ScreenShare)
    /\ p = Local => sub = FALSE
    /\ tracks' = tracks \cup {TrackRef(p, ScreenShare, sub)}
    /\ UNCHANGED <<participants, layoutState>>
    /\ Rerender
    /\ UNCHANGED <<room, chat>>

TrackUnpublished(p, s) ==
    /\ HasTrack(p, s)
    /\ tracks' = tracks \ {TrackOf(p, s)}
    /\ UNCHANGED <<participants, layoutState>>
    /\ Rerender
    /\ UNCHANGED <<room, chat>>

\* the subscription of a remote screen-share track starts or ends
SubscriptionChanged(p) ==
    /\ p # Local
    /\ HasTrack(p, ScreenShare)
    /\ tracks' = (tracks \ {TrackOf(p, ScreenShare)})
                   \cup {TrackRef(p, ScreenShare, ~TrackOf(p, ScreenShare).isSubscribed)}
    /\ UNCHANGED <<participants, layoutState>>
    /\ Rerender
    /\ UNCHANGED <<room, chat>>

(* ------------------------------------------------------------------ *)
(* Chat panel buttons                                                 *)
(* ------------------------------------------------------------------ *)

\* chatMessages.map((msg) => <CustomChatEntry key={msg.timestamp} entry={msg} />)
entryElements(messages) ==
    [i \in 1..Len(messages) |-> [key |-> messages[i].timestamp, entry |-> messages[i]]]

\* how many leading children keep their key from one render to the next
RECURSIVE sameKeys(_, _)
sameKeys(old, new) ==
    IF old = <<>> \/ new = <<>> \/ Head(old).key # Head(new).key THEN 0
    ELSE 1 + sameKeys(Tail(old), Tail(new))

\* the old children React forgets when it indexes them by key: of several
\* children with one key the index holds the last, and the others are
\* neither reused nor removed
shadowed(old) ==
    SelectSeq([i \in 1..Len(old) |->
                 [key |-> old[i].key, entry |-> old[i].entry,
                  kept |-> \E j \in (i + 1)..Len(old) : old[j].key = old[i].key]],
              LAMBDA child : child.kept)

\* React's reconciliation of a keyed child list. Children are matched one by
\* one while the keys agree and take the new props. If the new list ends
\* there the remaining old children are removed, if the old list ends there
\* the remaining new children are created. Else the remaining old children
\* are looked up by key (not reached while the list only grows at its end).
reconcileChildrenArray(old, new) ==
    LET n == sameKeys(old, new)
    IN  IF n = Len(new) \/ n = Len(old) THEN new
        ELSE SubSeq(new, 1, n)
             \o [i \in 1..Len(shadowed(SubSeq(old, n + 1, Len(old)))) |->
                    [key |-> shadowed(SubSeq(old, n + 1, Len(old)))[i].key,
                     entry |-> shadowed(SubSeq(old, n + 1, Len(old)))[i].entry]]
             \o SubSeq(new, n + 1, Len(new))

\* the children of the message list after a render
renderEntries(old, visible, messages) ==
    IF visible THEN reconcileChildrenArray(old, entryElements(messages)) ELSE <<>>

\* the close button of the chat panel: setChatVisible(false)
CloseChat ==
    /\ chatVisible
    /\ chatVisible' = FALSE
    /\ rectCenter' = Unset
    /\ chatEntries' = renderEntries(chatEntries, FALSE, chatMessages)
    /\ UNCHANGED <<session, layout, thumbnailsCollapsed, pipCorner, swapPiP, dragRefs, maxDev>>
    /\ UNCHANGED <<room, compose>>

\* the chat toggle button, rendered while the panel is hidden: setChatVisible(true)
OpenChat ==
    /\ ~chatVisible
    /\ chatVisible' = TRUE
    /\ rectCenter' = Unset
    /\ chatEntries' = renderEntries(chatEntries, TRUE, chatMessages)
    /\ UNCHANGED <<session, layout, thumbnailsCollapsed, pipCorner, swapPiP, dragRefs, maxDev>>
    /\ UNCHANGED <<room, compose>>

(* ------------------------------------------------------------------ *)
(* 1v1 PiP layout                                                     *)
(* ------------------------------------------------------------------ *)

\* the value undefined, where a track reference is expected
undefined ==
    [participant |-> None, source |-> None, isSubscribed |-> FALSE, isLocal |-> FALSE]

\* Array.prototype.find with the predicate t.participant.isLocal (or its
\* negation): the first such element, or undefined
Find(seq, wantLocal) ==
    IF \E i \in 1..Len(seq) : seq[i].isLocal = wantLocal
    THEN seq[CHOOSE i \in 1..Len(seq) :
                /\ seq[i].isLocal = wantLocal
                /\ \A j \in 1..(i - 1) : seq[j].isLocal # wantLocal]
    ELSE undefined

localTrack == Find(filteredParticipantTracks, TRUE)
remoteTrack == Find(filteredParticipantTracks, FALSE)

mainTrack_SwapIgnored == remoteTrack

mainTrack == IF swapPiP THEN localTrack ELSE remoteTrack

pipTrack == IF swapPiP THEN remoteTrack ELSE localTrack

\* a || b on track references: undefined falls through to b
finalMain == IF mainTrack # undefined THEN mainTrack ELSE filteredParticipantTracks[1]
finalPip == IF pipTrack # undefined THEN pipTrack ELSE filteredParticipantTracks[2]

\* the participant tiles mounted in the gallery branch, in markup order
gridTracks == filteredParticipantTracks
gridTracks_GridOnly == participantTracks

galleryTiles ==
    IF PiPShown THEN <<finalMain, finalPip>>
    ELSE IF GridShown THEN (IF layout = WithPiP THEN gridTracks ELSE gridTracks_GridOnly)
    ELSE <<>>

\* the hidden container of AudioTrack elements, one per microphone track;
\* the grid-only layout has no such container in either branch
cinemaAudio == micTrackRefs
galleryAudio == micTrackRefs
hiddenAudio_GridOnly == <<>>

hiddenAudio ==
    IF layout = WithPiP
    THEN (IF CinemaShown THEN cinemaAudio ELSE galleryAudio)
    ELSE hiddenAudio_GridOnly

\* onDoubleClick={() => setSwapPiP(!swapPiP)}
onDoubleClick_CornerReset ==
    /\ PiPShown
    /\ swapPiP' = ~swapPiP
    /\ pipCorner' = "br"
    /\ rectCenter' = Unset
    /\ UNCHANGED <<session, layout, thumbnailsCollapsed, chatVisible, dragRefs, maxDev>>
    /\ UNCHANGED <<room, chat>>

onDoubleClick ==
    /\ PiPShown
    /\ swapPiP' = ~swapPiP
    /\ rectCenter' = Unset
    /\ UNCHANGED <<session, layout, thumbnailsCollapsed, chatVisible, pipCorner, dragRefs, maxDev>>
    /\ UNCHANGED <<room, chat>>

(* ------------------------------------------------------------------ *)
(* DraggablePiP                                                       *)
(* ------------------------------------------------------------------ *)

handlePointerDown(e) ==
    /\ PiPShown
    /\ isDragging' = TRUE
    /\ startPos' = e
    /\ hasMoved' = FALSE
    /\ maxDev' = 0
    /\ rectCenter' = Unset
    /\ UNCHANGED <<session, layoutState, transform>>
    /\ UNCHANGED <<room, chat>>

\* whether a displacement counts as movement
Moved_AtThreshold(dx, dy) == Abs(dx) >= DragThreshold \/ Abs(dy) >= DragThreshold

Moved(dx, dy) == Abs(dx) > DragThreshold \/ Abs(dy) > DragThreshold

handlePointerMove(e) ==
    /\ PiPShown
    /\ isDragging
    /\ LET dx == e[1] - startPos[1]
           dy == e[2] - startPos[2]
       IN  /\ hasMoved' = (hasMoved \/ Moved(dx, dy))
           /\ transform' = <<dx, dy>>
           /\ maxDev' = Max(maxDev, Max(Abs(dx), Abs(dy)))
    /\ rectCenter' = Unset
    /\ UNCHANGED <<session, layoutState, isDragging, startPos>>
    /\ UNCHANGED <<room, chat>>

\* the corner of the window quadrant that contains the point (centerX, centerY)
newCorner_Inclusive(centerX, centerY) ==
    LET isLeft == 2 * centerX <= WinW
        isTop == 2 * centerY <= WinH
    IN  IF isTop THEN (IF isLeft THEN "tl" ELSE "tr")
                 ELSE (IF isLeft THEN "bl" ELSE "br")

newCorner(centerX, centerY) ==
    LET isLeft == 2 * centerX < WinW
        isTop == 2 * centerY < WinH
    IN  IF isTop THEN (IF isLeft THEN "tl" ELSE "tr")
                 ELSE (IF isLeft THEN "bl" ELSE "br")

\* getBoundingClientRect(): the box the browser laid out, moved by the
\* translate() the last pointer move wrote into style.transform
handlePointerUp ==
    /\ PiPShown
    /\ isDragging
    /\ isDragging' = FALSE
    /\ transform' = Unset
    /\ IF ~hasMoved
       THEN /\ rectCenter' = Unset
            /\ UNCHANGED pipCorner
       ELSE \E rest \in RestCentres :
              LET centerX == rest[1] + transform[1]
                  centerY == rest[2] + transform[2]
              IN  /\ pipCorner' = newCorner(centerX, centerY)
                  /\ rectCenter' = <<centerX, centerY>>
    /\ UNCHANGED <<session, layout, thumbnailsCollapsed, chatVisible, swapPiP, startPos, hasMoved, maxDev>>
    /\ UNCHANGED <<room, chat>>

(* ------------------------------------------------------------------ *)
(* Cinema mode: the floating camera thumbnails                        *)
(* ------------------------------------------------------------------ *)

\* Array.prototype.slice(0, n)
Slice(seq, n) == [i \in 1..(IF Len(seq) < n THEN Len(seq) ELSE n) |-> seq[i]]

thumbnailsRendered == ~thumbnailsCollapsed /\ Len(cameraTracks) > 0

\* the ParticipantTile thumbnails of the strip, in order
thumbnails == IF thumbnailsRendered THEN Slice(cameraTracks, MaxThumbnails) ELSE <<>>

\* the "+N more" item of the strip, and its N
moreRendered_AtSix == thumbnailsRendered /\ Len(cameraTracks) >= MaxThumbnails

moreRendered == thumbnailsRendered /\ Len(cameraTracks) > MaxThumbnails

moreCount == Len(cameraTracks) - MaxThumbnails

(* ------------------------------------------------------------------ *)
(* ConnectionQuality                                                  *)
(* ------------------------------------------------------------------ *)

getQualityInfo ==
    CASE quality = Excellent -> [label |-> "Excellent", color |-> "#22c55e", bars |-> 4]
      [] quality = Good -> [label |-> "Good", color |-> "#22c55e", bars |-> 3]
      [] quality = Poor -> [label |-> "Poor", color |-> "#eab308", bars |-> 2]
      [] quality = Lost -> [label |-> "Disconnected", color |-> "#ef4444", bars |-> 0]
      [] OTHER -> [label |-> "Connecting...", color |-> "#6b7280", bars |-> 1]

getConnectionStateLabel ==
    CASE connectionState = Connected -> null
      [] connectionState = Connecting -> "Connecting..."
      [] connectionState = Reconnecting -> "Reconnecting..."
      [] connectionState = Disconnected -> "Disconnected"
      [] OTHER -> null

\* what the component returns: the transport-state label, or the signal bars
\* (the set of active bars) with the quality label beside them
ConnectionQuality(showLabel) ==
    LET qualityInfo == getQualityInfo
        connectionLabel == getConnectionStateLabel
    IN  IF connectionLabel # null /\ connectionLabel # ""
        THEN [view |-> "state", text |-> connectionLabel]
        ELSE [view |-> "quality",
              bars |-> {bar \in 1..4 : bar <= qualityInfo.bars},
              color |-> qualityInfo.color,
              text |-> IF showLabel THEN qualityInfo.label ELSE null]

\* the room's transport state changes
ConnectionStateChanged(s) ==
    /\ s # connectionState
    /\ connectionState' = s
    /\ UNCHANGED <<session, layoutState, dragRefs, maxDev, rectCenter, quality, chat>>

\* the server reports another connection quality for the local participant
ConnectionQualityChanged(q) ==
    /\ q # quality
    /\ quality' = q
    /\ UNCHANGED <<session, layoutState, dragRefs, maxDev, rectCenter, connectionState, chat>>

(* ------------------------------------------------------------------ *)
(* JavaScript values and JSON text                                    *)
(* ------------------------------------------------------------------ *)

\* A string is the sequence of its characters.  A value is a record tagged
\* with its type; the members of an object keep their insertion order.
JStr(s) == [k |-> "string", s |-> s]
JNum(n) == [k |-> "number", n |-> n]
JBool(b) == [k |-> "boolean", b |-> b]
JNull == [k |-> "null"]
JUndefined == [k |-> "undefined"]
JArr(items) == [k |-> "array", items |-> items]
JObj(members) == [k |-> "object", members |-> members]
Member(key, val) == [key |-> key, val |-> val]

Whitespace == {" ", "\n", "\t", "\r"}
ControlChars == {"\n", "\t", "\r"}
DigitChars == <<"0", "1", "2", "3", "4", "5", "6", "7", "8", "9">>
Digits == Range(DigitChars)
DigitValue(c) == (CHOOSE i \in 1..10 : DigitChars[i] = c) - 1

\* the members of an object after obj[key] = val
Put(members, key, val) ==
    IF \E i \in 1..Len(members) : members[i].key = key
    THEN [i \in 1..Len(members) |->
            IF members[i].key = key THEN Member(key, val) ELSE members[i]]
    ELSE Append(members, Member(key, val))

HasKey(v, key) ==
    v.k = "object" /\ \E i \in 1..Len(v.members) : v.members[i].key = key

\* v[key], for a v that is neither null nor undefined
Get(v, key) ==
    IF HasKey(v, key)
    THEN v.members[CHOOSE i \in 1..Len(v.members) : v.members[i].key = key].val
    ELSE IF key = <<"l", "e", "n", "g", "t", "h">> /\ v.k = "string" THEN JNum(Len(v.s))
    ELSE IF key = <<"l", "e", "n", "g", "t", "h">> /\ v.k = "array" THEN JNum(Len(v.items))
    ELSE JUndefined

\* ToBoolean
Truthy(v) ==
    CASE v.k = "string" -> v.s # <<>>
      [] v.k = "number" -> v.n # 0
      [] v.k = "boolean" -> v.b
      [] v.k \in {"null", "undefined"} -> FALSE
      [] OTHER -> TRUE

\* typeof v === 'object'
TypeofObject(v) == v.k \in {"object", "array", "null"}

(* JSON.parse: a recursive-descent reader of the JSON grammar.  Numbers are  *)
(* the integers and the string escapes are \" \\ \/ \n \t \r.                *)

Fail == [ok |-> FALSE]
Ok(v, i) == [ok |-> TRUE, val |-> v, next |-> i]

RECURSIVE SkipWs(_, _)
SkipWs(s, i) == IF i <= Len(s) /\ s[i] \in Whitespace THEN SkipWs(s, i + 1) ELSE i

Unescape(c) ==
    CASE c = "n" -> "\n"
      [] c = "t" -> "\t"
      [] c = "r" -> "\r"
      [] OTHER -> c

\* the characters of a string literal whose opening quote is before s[i]
RECURSIVE ScanString(_, _, _)
ScanString(s, i, acc) ==
    IF i > Len(s) THEN Fail
    ELSE IF s[i] = "\"" THEN Ok(JStr(acc), i + 1)
    ELSE IF s[i] = "\\"
         THEN IF i + 1 <= Len(s) /\ s[i + 1] \in {"\"", "\\", "/", "n", "t", "r"}
              THEN ScanString(s, i + 2, Append(acc, Unescape(s[i + 1])))
              ELSE Fail
    ELSE IF s[i] \in ControlChars THEN Fail
    ELSE ScanString(s, i + 1, Append(acc, s[i]))

RECURSIVE ScanDigits(_, _, _)
ScanDigits(s, i, n) ==
    IF i <= Len(s) /\ s[i] \in Digits
    THEN ScanDigits(s, i + 1, 10 * n + DigitValue(s[i]))
    ELSE [n |-> n, next |-> i]

ParseNumber(s, i) ==
    LET neg == s[i] = "-"
        j == IF neg THEN i + 1 ELSE i
    IN  IF j > Len(s) \/ s[j] \notin Digits THEN Fail
        ELSE IF s[j] = "0" THEN Ok(JNum(0), j + 1)
        ELSE LET r == ScanDigits(s, j, 0)
             IN  Ok(JNum(IF neg THEN 0 - r.n ELSE r.n), r.next)

IsAt(s, i, word) ==
    i + Len(word) - 1 <= Len(s) /\ SubSeq(s, i, i + Len(word) - 1) = word

RECURSIVE ParseValue(_, _)
RECURSIVE ParseElements(_, _, _, _)
RECURSIVE ParseMembers(_, _, _, _)

ParseValue(s, i) ==
    IF i > Len(s) THEN Fail
    ELSE IF s[i] = "{" THEN ParseMembers(s, SkipWs(s, i + 1), <<>>, TRUE)
    ELSE IF s[i] = "[" THEN ParseElements(s, SkipWs(s, i + 1), <<>>, TRUE)
    ELSE IF s[i] = "\"" THEN ScanString(s, i + 1, <<>>)
    ELSE IF s[i] = "-" \/ s[i] \in Digits THEN ParseNumber(s, i)
    ELSE IF IsAt(s, i, <<"t", "r", "u", "e">>) THEN Ok(JBool(TRUE), i + 4)
    ELSE IF IsAt(s, i, <<"f", "a", "l", "s", "e">>) THEN Ok(JBool(FALSE), i + 5)
    ELSE IF IsAt(s, i, <<"n", "u", "l", "l">>) THEN Ok(JNull, i + 4)
    ELSE Fail

ParseElements(s, i, acc, first) ==
    IF i > Len(s) THEN Fail
    ELSE IF first /\ s[i] = "]" THEN Ok(JArr(acc), i + 1)
    ELSE LET v == ParseValue(s, i)
         IN  IF ~v.ok THEN Fail
             ELSE LET j == SkipWs(s, v.next)
                  IN  IF j > Len(s) THEN Fail
                      ELSE IF s[j] = ","
                           THEN ParseElements(s, SkipWs(s, j + 1), Append(acc, v.val), FALSE)
                      ELSE IF s[j] = "]" THEN Ok(JArr(Append(acc, v.val)), j + 1)
                      ELSE Fail

ParseMembers(s, i, acc, first) ==
    IF i > Len(s) THEN Fail
    ELSE IF first /\ s[i] = "}" THEN Ok(JObj(acc), i + 1)
    ELSE IF s[i] # "\"" THEN Fail
    ELSE LET key == ScanString(s, i + 1, <<>>)
         IN  IF ~key.ok THEN Fail
             ELSE LET c == SkipWs(s, key.next)
                  IN  IF c > Len(s) \/ s[c] # ":" THEN Fail
                      ELSE LET v == ParseValue(s, SkipWs(s, c + 1))
                           IN  IF ~v.ok THEN Fail
                               ELSE LET j == SkipWs(s, v.next)
                                        members == Put(acc, key.val.s, v.val)
                                    IN  IF j > Len(s) THEN Fail
                                        ELSE IF s[j] = ","
                                             THEN ParseMembers(s, SkipWs(s, j + 1), members, FALSE)
                                        ELSE IF s[j] = "}" THEN Ok(JObj(members), j + 1)
                                        ELSE Fail

\* JSON.parse(s): the value, or ok = FALSE where it throws SyntaxError
JSONparse(s) ==
    LET r == ParseValue(s, SkipWs(s, 1))
    IN  IF r.ok /\ SkipWs(s, r.next) = Len(s) + 1
        THEN [ok |-> TRUE, val |-> r.val]
        ELSE Fail

(* JSON.stringify *)

RECURSIVE Quote(_)
Quote(s) ==
    IF s = <<>> THEN <<>>
    ELSE (CASE Head(s) = "\"" -> <<"\\", "\"">>
            [] Head(s) = "\\" -> <<"\\", "\\">>
            [] Head(s) = "\n" -> <<"\\", "n">>
            [] Head(s) = "\t" -> <<"\\", "t">>
            [] Head(s) = "\r" -> <<"\\", "r">>
            [] OTHER -> <<Head(s)>>) \o Quote(Tail(s))

RECURSIVE Decimal(_)
Decimal(n) ==
    IF n < 0 THEN <<"-">> \o Decimal(0 - n)
    ELSE IF n < 10 THEN <<DigitChars[n + 1]>>
    ELSE Decimal(n \div 10) \o <<DigitChars[(n % 10) + 1]>>

RECURSIVE JSONstringify(_)
RECURSIVE StringifyElements(_, _)
RECURSIVE StringifyMembers(_, _)

JSONstringify(v) ==
    CASE v.k = "string" -> <<"\"">> \o Quote(v.s) \o <<"\"">>
      [] v.k = "number" -> Decimal(v.n)
      [] v.k = "boolean" -> IF v.b THEN <<"t", "r", "u", "e">> ELSE <<"f", "a", "l", "s", "e">>
      [] v.k = "null" -> <<"n", "u", "l", "l">>
      [] v.k = "array" -> <<"[">> \o StringifyElements(v.items, TRUE) \o <<"]">>
      [] v.k = "object" -> <<"{">> \o StringifyMembers(v.members, TRUE) \o <<"}">>

\* an undefined element of an array is written as null
StringifyElements(items, first) ==
    IF items = <<>> THEN <<>>
    ELSE (IF first THEN <<>> ELSE <<",">>)
         \o (IF Head(items).k = "undefined" THEN <<"n", "u", "l", "l">>
             ELSE JSONstringify(Head(items)))
         \o StringifyElements(Tail(items), FALSE)

\* a member whose value is undefined is left out
StringifyMembers(members, first) ==
    IF members = <<>> THEN <<>>
    ELSE IF Head(members).val.k = "undefined" THEN StringifyMembers(Tail(members), first)
    ELSE (IF first THEN <<>> ELSE <<",">>)
         \o <<"\"">> \o Quote(Head(members).key) \o <<"\"", ":">>
         \o JSONstringify(Head(members).val)
         \o StringifyMembers(Tail(members), FALSE)

\* String.prototype.trim
RECURSIVE TrimStart(_)
TrimStart(s) == IF s # <<>> /\ Head(s) \in Whitespace THEN TrimStart(Tail(s)) ELSE s

RECURSIVE TrimEnd(_)
TrimEnd(s) ==
    IF s # <<>> /\ s[Len(s)] \in Whitespace THEN TrimEnd(SubSeq(s, 1, Len(s) - 1)) ELSE s

Trim(s) == TrimEnd(TrimStart(s))

(* ------------------------------------------------------------------ *)
(* getUserColor                                                       *)
(* ------------------------------------------------------------------ *)

USER_COLORS ==
    <<"#f87171", "#fb923c", "#fbbf24", "#a3e635", "#34d399",
      "#22d3ee", "#818cf8", "#e879f9", "#fb7185">>

\* the printable ASCII characters from code 32 to code 126, but for the grave
\* accent (code 96)
Ascii ==
 <<
    " ", "!", "\"", "#", "$", "%", "&", "'", "(", ")", "*", "+", ",", "-", ".", "/",
    "0", "1", "2", "3", "4", "5", "6", "7", "8", "9", ":", ";", "<", "=", ">", "?",
    "@", "A", "B", "C", "D", "E", "F", "G", "H", "I", "J", "K", "L", "M", "N", "O",
    "P", "Q", "R", "S", "T", "U", "V", "W", "X", "Y", "Z", "[", "\\", "]", "^", "_",
    "a", "b", "c", "d", "e", "f", "g", "h", "i", "j", "k", "l", "m", "n", "o",
    "p", "q", "r", "s", "t", "u", "v", "w", "x", "y", "z", "{", "|", "}", "~"
 >>

\* String.prototype.charCodeAt
charCodeAt(c) ==
    CASE c = "\t" -> 9
      [] c = "\n" -> 10
      [] c = "\r" -> 13
      [] OTHER -> LET i == CHOOSE j \in 1..Len(Ascii) : Ascii[j] = c
                  IN  IF i <= 64 THEN 31 + i ELSE 32 + i

\* A JavaScript number too wide for 32 bits is kept as hi * 2^16 + lo with
\* lo in 0..65535.
Half == 65536
Wide(hi, lo) == [hi |-> hi + (lo \div Half), lo |-> lo % Half]

\* h << 5: ToInt32 of 32 * h
ShiftLeft5(h) ==
    LET lo == (32 * h.lo) % Half
        hi == (32 * h.hi + ((32 * h.lo) \div Half)) % Half
    IN  [hi |-> IF hi >= Half \div 2 THEN hi - Half ELSE hi, lo |-> lo]

\* Math.abs(h) % m
AbsMod(h, m) ==
    IF h.hi >= 0
    THEN ((h.hi % m) * (Half % m) + h.lo) % m
    ELSE (((0 - h.hi) % m) * (Half % m) - (h.lo % m)) % m

\* hash = id.charCodeAt(i) + ((hash << 5) - hash), over the characters of id
RECURSIVE HashFrom(_, _)
HashFrom(hash, id) ==
    IF id = <<>> THEN hash
    ELSE LET shifted == ShiftLeft5(hash)
         IN  HashFrom(Wide(shifted.hi - hash.hi, charCodeAt(Head(id)) + shifted.lo - hash.lo),
                      Tail(id))

\* 0 < id.length, for the value id.length of a value that is no string
LoopEntered(len) ==
    \/ len.k = "number" /\ len.n > 0
    \/ len.k = "boolean" /\ len.b

\* getUserColor(id) for any value id: the colour, or threw = TRUE where it
\* throws TypeError (id.length of null or undefined, id.charCodeAt of a value
\* that is no string)
getUserColor(id) ==
    IF id.k \in {"null", "undefined"} THEN [threw |-> TRUE]
    ELSE IF id.k = "string"
         THEN [threw |-> FALSE,
               color |-> USER_COLORS[AbsMod(HashFrom(Wide(0, 0), id.s), Len(USER_COLORS)) + 1]]
    ELSE IF LoopEntered(Get(id, <<"l", "e", "n", "g", "t", "h">>)) THEN [threw |-> TRUE]
    ELSE [threw |-> FALSE, color |-> USER_COLORS[1]]

(* ------------------------------------------------------------------ *)
(* CustomChatEntry                                                    *)
(* ------------------------------------------------------------------ *)

kText == <<"t", "e", "x", "t">>
kReplyTo == <<"r", "e", "p", "l", "y", "T", "o">>
kId == <<"i", "d">>
kSender == <<"s", "e", "n", "d", "e", "r">>

\* a participant as the chat reads it, and a received chat message; from is
\* <<>> where entry.from is undefined, and else holds the participant
Participant(identity, name) == [identity |-> identity, name |-> name]
LocalParticipant == Participant(<<"m", "e">>, <<"M", "o">>)

ReceivedChatMessage(id, timestamp, message, from) ==
    [id |-> id, timestamp |-> timestamp, message |-> message, from |-> from]

\* parsed && typeof parsed === 'object' && 'text' in parsed
IsEnvelope_AnyObject(parsed) == Truthy(parsed) /\ TypeofObject(parsed)

IsEnvelope(parsed) == Truthy(parsed) /\ TypeofObject(parsed) /\ HasKey(parsed, kText)

\* the ChatMessagePayload shown for an entry
content_Legacy(entry) == JObj(<<Member(kText, JStr(entry.message))>>)

content(entry) ==
    LET parsed == JSONparse(entry.message)
    IN  IF parsed.ok /\ IsEnvelope(parsed.val)
        THEN parsed.val
        ELSE JObj(<<Member(kText, JStr(entry.message))>>)

\* entry.from?.name || entry.from?.identity || fallback
nameOr(from, fallback) ==
    IF from = <<>> THEN fallback
    ELSE IF from[1].name # <<>> THEN from[1].name
    ELSE IF from[1].identity # <<>> THEN from[1].identity
    ELSE fallback

\* React renders strings and numbers as text, booleans, null and undefined as
\* nothing, an array child by child, and throws on a plain object
RECURSIVE Renderable(_)
Renderable(v) ==
    CASE v.k = "object" -> FALSE
      [] v.k = "array" -> \A i \in 1..Len(v.items) : Renderable(v.items[i])
      [] OTHER -> TRUE

\* the markup of an entry whose payload has the members text and replyTo, or
\* threw = TRUE where rendering it throws
Bubble(displayName, isLocal, text, replyTo, sender) ==
    IF Truthy(replyTo)
       /\ (\/ getUserColor(sender).threw
           \/ ~Renderable(sender)
           \/ ~Renderable(Get(replyTo, kText)))
    THEN [threw |-> TRUE]
    ELSE IF ~Renderable(text) THEN [threw |-> TRUE]
    ELSE [threw |-> FALSE,
          displayName |-> displayName,
          authorColor |-> IF isLocal THEN null
                          ELSE getUserColor(JStr(displayName)).color,
          replyContext |-> IF Truthy(replyTo)
                           THEN <<[sender |-> sender,
                                   color |-> getUserColor(sender).color,
                                   text |-> Get(replyTo, kText)]>>
                           ELSE <<>>,
          text |-> text]

\* content.replyTo.sender, read only where content.replyTo is truthy
SenderOf(replyTo) == IF Truthy(replyTo) THEN Get(replyTo, kSender) ELSE JUndefined

BubbleOf(displayName, isLocal, text, replyTo) ==
    Bubble(displayName, isLocal, text, replyTo, SenderOf(replyTo))

Shown(entry, shown) ==
    BubbleOf(nameOr(entry.from, <<"M", "e">>), entry.from = <<>>,
             Get(shown, kText), Get(shown, kReplyTo))

\* what the component renders for an entry
CustomChatEntry(entry) == Shown(entry, content(entry))

(* ------------------------------------------------------------------ *)
(* Chat panel: the message list and the compose box                   *)
(* ------------------------------------------------------------------ *)

outsideChat == <<session, layoutState, dragRefs, maxDev, rectCenter, room>>

\* the list of CustomChatEntry elements, rendered while the panel is shown
chatList == IF chatVisible THEN [i \in 1..Len(chatMessages) |-> CustomChatEntry(chatMessages[i])]
                           ELSE <<>>

\* an entry that throws while rendering takes the whole layout down with it:
\* nothing of it is mounted afterwards
mounted ==
    chatVisible => \A i \in 1..Len(chatMessages) : ~CustomChatEntry(chatMessages[i]).threw

lastTimestamp ==
    IF chatMessages = <<>> THEN 0 ELSE chatMessages[Len(chatMessages)].timestamp

newId == <<"m">> \o Decimal(Len(chatMessages) + 1)

\* the session delivers a message of another participant; its timestamp is
\* the sender's
MessageReceived(message, from, timestamp) ==
    /\ chatMessages' = Append(chatMessages, ReceivedChatMessage(newId, timestamp, message, from))
    /\ chatEntries' = renderEntries(chatEntries, chatVisible, chatMessages')
    /\ UNCHANGED <<isSending, chatInput, replyingTo, showEmojiPicker, pending, outgoing>>
    /\ UNCHANGED outsideChat

\* the disabled attributes of the input and of the Send button
inputDisabled == isSending
sendDisabled == isSending \/ Trim(chatInput) = <<>>

\* onChange={(e) => setChatInput(e.target.value)}
onChange(value) ==
    /\ chatVisible /\ mounted
    /\ ~inputDisabled
    /\ value # chatInput
    /\ chatInput' = value
    /\ UNCHANGED <<chatMessages, isSending, replyingTo, showEmojiPicker, pending, outgoing, chatEntries>>
    /\ UNCHANGED outsideChat

\* the Reply button of the i-th entry: onReply(entry) is setReplyingTo(entry)
onReply(i) ==
    /\ chatVisible /\ mounted
    /\ i \in 1..Len(chatMessages)
    /\ replyingTo' = <<chatMessages[i]>>
    /\ UNCHANGED <<chatMessages, isSending, chatInput, showEmojiPicker, pending, outgoing, chatEntries>>
    /\ UNCHANGED outsideChat

\* the close button of the reply preview, rendered while replyingTo is set
dismissReply_ClearsDraft ==
    /\ chatVisible /\ mounted
    /\ replyingTo # <<>>
    /\ replyingTo' = <<>>
    /\ chatInput' = <<>>
    /\ UNCHANGED <<chatMessages, isSending, showEmojiPicker, pending, outgoing, chatEntries>>
    /\ UNCHANGED outsideChat

dismissReply ==
    /\ chatVisible /\ mounted
    /\ replyingTo # <<>>
    /\ replyingTo' = <<>>
    /\ UNCHANGED <<chatMessages, isSending, chatInput, showEmojiPicker, pending, outgoing, chatEntries>>
    /\ UNCHANGED outsideChat

\* the emoji button: setShowEmojiPicker(!showEmojiPicker)
toggleEmojiPicker ==
    /\ chatVisible /\ mounted
    /\ showEmojiPicker' = ~showEmojiPicker
    /\ UNCHANGED <<chatMessages, isSending, chatInput, replyingTo, pending, outgoing, chatEntries>>
    /\ UNCHANGED outsideChat

\* the text of the reply-preview bar: parsed.text || replyingTo.message, and
\* replyingTo.message where JSON.parse or the read of parsed.text throws
replyPreviewText(target) ==
    LET parsed == JSONparse(target.message)
    IN  IF ~parsed.ok \/ parsed.val.k = "null" THEN JStr(target.message)
        ELSE IF Truthy(Get(parsed.val, kText)) THEN Get(parsed.val, kText)
        ELSE JStr(target.message)

\* the selections (selectionStart, selectionEnd) the input may hold: the
\* caret at either end of the text, or the whole text selected
Selections(text) == {<<0, 0>>, <<Len(text), Len(text)>>, <<0, Len(text)>>}

\* a click on an emoji of the picker, rendered while showEmojiPicker is set;
\* the input is mounted whenever the picker is, so chatInputRef.current is set
onEmojiClick(emoji, start, end) ==
    /\ chatVisible /\ mounted
    /\ showEmojiPicker
    /\ chatInput' = SubSeq(chatInput, 1, start) \o emoji
                        \o SubSeq(chatInput, end + 1, Len(chatInput))
    /\ UNCHANGED <<chatMessages, isSending, replyingTo, showEmojiPicker, pending, outgoing,
                   chatEntries>>
    /\ UNCHANGED outsideChat

\* the text quoted from the message replied to
originalText(target) ==
    LET parsed == JSONparse(target.message)
    IN  IF parsed.ok /\ IsEnvelope(parsed.val)
        THEN Get(parsed.val, kText)
        ELSE JStr(target.message)

\* the reply context of an outgoing payload
replyTo_LiveReference(target) ==
    JObj(<<Member(kId, JStr(target.id)),
           Member(kSender, JStr(nameOr(target.from, <<"U", "n", "k", "n", "o", "w", "n">>))),
           Member(kText, JStr(target.message))>>)

replyTo(target) ==
    JObj(<<Member(kId, JStr(target.id)),
           Member(kSender, JStr(nameOr(target.from, <<"U", "n", "k", "n", "o", "w", "n">>))),
           Member(kText, originalText(target))>>)

\* the ChatMessagePayload handleSendMessage builds
payload ==
    LET text == <<Member(kText, JStr(Trim(chatInput)))>>
    IN  IF replyingTo # <<>>
        THEN JObj(Put(text, kReplyTo, replyTo(replyingTo[1])))
        ELSE JObj(text)

\* useChat's send(message), up to its suspension: the flag is raised and the
\* message is on its way
send_FlagNotRaised(message) ==
    /\ isSending' = isSending
    /\ pending' = Append(pending, message)
    /\ outgoing' = Append(outgoing, [message |-> message, chatInput |-> chatInput,
                                     replyingTo |-> replyingTo])

send(message) ==
    /\ isSending' = TRUE
    /\ pending' = Append(pending, message)
    /\ outgoing' = Append(outgoing, [message |-> message, chatInput |-> chatInput,
                                     replyingTo |-> replyingTo])

\* handleSendMessage, up to its await
handleSendMessage_NoTrim ==
    IF chatInput # <<>> /\ ~isSending
    THEN /\ send(JSONstringify(payload))
         /\ UNCHANGED <<chatMessages, chatInput, replyingTo, chatEntries>>
    ELSE UNCHANGED <<chatMessages, isSending, chatInput, replyingTo, pending, outgoing,
                     chatEntries>>

handleSendMessage ==
    IF Trim(chatInput) # <<>> /\ ~isSending
    THEN /\ send(JSONstringify(payload))
         /\ UNCHANGED <<chatMessages, chatInput, replyingTo, chatEntries>>
    ELSE UNCHANGED <<chatMessages, isSending, chatInput, replyingTo, pending, outgoing,
                     chatEntries>>

\* a click on the Send button: a disabled button dispatches nothing
SendClick ==
    /\ chatVisible /\ mounted
    /\ IF sendDisabled
       THEN UNCHANGED chat
       ELSE handleSendMessage /\ UNCHANGED showEmojiPicker
    /\ UNCHANGED outsideChat

\* Enter without Shift in the input (handleKeyDown): a disabled input gets no
\* key event
EnterKey ==
    /\ chatVisible /\ mounted
    /\ IF inputDisabled
       THEN UNCHANGED chat
       ELSE handleSendMessage /\ showEmojiPicker' = FALSE
    /\ UNCHANGED outsideChat

\* the promise of the oldest send resolves: the session adds the sent message
\* to the list and lowers the flag, then handleSendMessage resumes after its
\* await and clears the compose box
sendResolved(timestamp) ==
    /\ pending # <<>>
    /\ timestamp >= lastTimestamp
    /\ chatMessages' = Append(chatMessages,
            ReceivedChatMessage(newId, timestamp, Head(pending), <<LocalParticipant>>))
    /\ pending' = Tail(pending)
    /\ isSending' = FALSE
    /\ chatInput' = <<>>
    /\ replyingTo' = <<>>
    /\ chatEntries' = renderEntries(chatEntries, chatVisible, chatMessages')
    /\ UNCHANGED <<showEmojiPicker, outgoing>>
    /\ UNCHANGED outsideChat

\* the promise of the oldest send rejects: the flag is lowered and
\* handleSendMessage ends at its await
sendRejected_ClearsDraft ==
    /\ pending # <<>>
    /\ pending' = Tail(pending)
    /\ isSending' = FALSE
    /\ chatInput' = <<>>
    /\ replyingTo' = <<>>
    /\ UNCHANGED <<chatMessages, showEmojiPicker, outgoing, chatEntries>>
    /\ UNCHANGED outsideChat

sendRejected_FlagStuck ==
    /\ pending # <<>>
    /\ pending' = Tail(pending)
    /\ UNCHANGED <<chatMessages, isSending, chatInput, replyingTo, showEmojiPicker, outgoing, chatEntries>>
    /\ UNCHANGED outsideChat

sendRejected ==
    /\ pending # <<>>
    /\ pending' = Tail(pending)
    /\ isSending' = FALSE
    /\ UNCHANGED <<chatMessages, chatInput, replyingTo, showEmojiPicker, outgoing, chatEntries>>
    /\ UNCHANGED outsideChat

(* ------------------------------------------------------------------ *)
(* Specification                                                      *)
(* ------------------------------------------------------------------ *)

Next ==
    \/ \E p \in Ids : ParticipantConnected(p)
    \/ \E p \in Ids : ParticipantDisconnected(p)
    \/ \E p \in Ids, s \in {Camera, Microphone} : TrackPublished(p, s)
    \/ \E p \in Ids, sub \in BOOLEAN : ScreenSharePublished(p, sub)
    \/ \E p \in Ids, s \in {Camera, Microphone, ScreenShare} : TrackUnpublished(p, s)
    \/ \E p \in Ids : SubscriptionChanged(p)
    \/ CloseChat
    \/ OpenChat
    \/ onDoubleClick
    \/ \E e \in PressPoints : handlePointerDown(e)
    \/ \E e \in Points : handlePointerMove(e)
    \/ handlePointerUp

Spec == Init /\ [][Next]_vars

\* a full room: eight participants whose cameras come and go while one of them
\* shares a screen, and the transport state and quality change
RoomInit ==
    /\ layout \in Layouts
    /\ participants = RoomIds
    /\ tracks = {}
    /\ thumbnailsCollapsed = FALSE
    /\ chatVisible = TRUE
    /\ pipCorner = "br"
    /\ swapPiP = FALSE
    /\ InitDrag
    /\ InitRoom
    /\ InitChat

RoomNext ==
    \/ \E p \in RoomIds : TrackPublished(p, Camera)
    \/ \E p \in RoomIds : TrackUnpublished(p, Camera)
    \/ \E sub \in BOOLEAN : ScreenSharePublished("a", sub)
    \/ TrackUnpublished("a", ScreenShare)
    \/ \E s \in ConnectionStates : ConnectionStateChanged(s)
    \/ \E q \in ConnectionQualities : ConnectionQualityChanged(q)

RoomSpec == RoomInit /\ [][RoomNext]_vars

\* the authors of the messages received: one with a name, one with an identity
\* only, and a message whose from is undefined
Authors ==
    {<<Participant(<<"a", "l">>, <<"A", "l">>)>>, <<Participant(<<"b", "o">>, <<>>)>>, <<>>}

\* the JSON values other clients may send: scalars, arrays, objects without
\* text, envelopes whose text or replyTo have every type
Env(text) == JObj(<<Member(kText, text)>>)
EnvReply(reply) == JObj(<<Member(kText, JStr(<<"h", "i">>)), Member(kReplyTo, reply)>>)
Quoted(id, sender, text) ==
    JObj(<<Member(kId, id), Member(kSender, sender), Member(kText, text)>>)

SentValues ==
    {JNum(5), JNum(0), JStr(<<"h", "i">>), JBool(TRUE), JNull,
     JArr(<<>>), JArr(<<JStr(kText)>>), JObj(<<>>), JObj(<<Member(kId, JStr(<<"x">>))>>),
     Env(JStr(<<"h", "i">>)), Env(JStr(<<>>)), Env(JNum(5)), Env(JNull), Env(JBool(TRUE)),
     Env(JObj(<<>>)), Env(JArr(<<JStr(<<"a">>)>>)),
     EnvReply(Quoted(JStr(<<"m", "1">>), JStr(<<"b", "o">>), JStr(<<"y", "o">>))),
     EnvReply(Quoted(JStr(<<"m", "1">>), JNull, JStr(<<"y", "o">>))),
     EnvReply(Quoted(JStr(<<"m", "1">>), JNum(5), JStr(<<"y", "o">>))),
     EnvReply(Quoted(JStr(<<"m", "1">>), JArr(<<JStr(<<"a">>)>>), JStr(<<"y", "o">>))),
     EnvReply(Quoted(JStr(<<"m", "1">>), JStr(<<"b", "o">>), JObj(<<>>))),
     EnvReply(Quoted(JNum(1), JStr(<<"b", "o">>), JNum(7))),
     EnvReply(JObj(<<Member(kId, JStr(<<"m", "1">>)), Member(kText, JStr(<<"y", "o">>))>>)),
     EnvReply(JObj(<<Member(kSender, JStr(<<"b", "o">>))>>)),
     EnvReply(JObj(<<>>)), EnvReply(JArr(<<>>)), EnvReply(JStr(<<"x">>)),
     EnvReply(JNum(5)), EnvReply(JNum(0)), EnvReply(JNull)}

RawPayloads == PlainPayloads \cup {JSONstringify(v) : v \in SentValues}

\* one message on the wire at a time, of every shape: a message arrives in an
\* empty list, the user may reply to it, and one message is sent
WireNext ==
    \/ \E message \in RawPayloads, from \in Authors :
         chatMessages = <<>> /\ MessageReceived(message, from, 1)
    \/ \E value \in Drafts : outgoing = <<>> /\ onChange(value)
    \/ \E i \in 1..Len(chatMessages) : outgoing = <<>> /\ replyingTo = <<>> /\ onReply(i)
    \/ outgoing = <<>> /\ dismissReply
    \/ outgoing = <<>> /\ SendClick
    \/ outgoing = <<>> /\ EnterKey
    \/ sendResolved(2)
    \/ sendRejected

WireSpec == Init /\ [][WireNext]_vars

\* the compose box over time: typing, replying, the emoji button, send
\* attempts by button and by key at any moment, and the completions of the
\* sends in either way
Received == Len(SelectSeq(chatMessages, LAMBDA entry : entry.from # <<LocalParticipant>>))

settle == sendResolved(lastTimestamp + 1) \/ sendRejected

ChatNext ==
    \/ \E message \in ChatPayloads :
         /\ Received < MaxMessages
         /\ MessageReceived(message, <<Participant(<<"a", "l">>, <<"A", "l">>)>>, lastTimestamp + 1)
    \/ \E value \in ChatDrafts : onChange(value)
    \/ \E i \in 1..Len(chatMessages) : onReply(i)
    \/ dismissReply
    \/ toggleEmojiPicker
    \/ Len(outgoing) < MaxSends /\ SendClick
    \/ Len(outgoing) < MaxSends /\ EnterKey
    \/ sendResolved(lastTimestamp + 1)
    \/ sendRejected

ChatInit == Init /\ layout = WithPiP

\* one send and everything the user can do before it, while it is pending
\* and after it: typing, the Reply buttons, dismissal, the emoji picker
ComposeNext ==
    \/ \E message \in ChatPayloads :
         /\ chatMessages = <<>>
         /\ MessageReceived(message, <<Participant(<<"a", "l">>, <<"A", "l">>)>>, 1)
    \/ \E value \in ChatDrafts : onChange(value)
    \/ \E i \in 1..Len(chatMessages) : onReply(i)
    \/ dismissReply
    \/ toggleEmojiPicker
    \/ \E selection \in Selections(chatInput) :
         /\ Len(chatInput) + Len(Emoji) <= MaxDraft
         /\ onEmojiClick(Emoji, selection[1], selection[2])
    \/ outgoing = <<>> /\ SendClick
    \/ outgoing = <<>> /\ EnterKey
    \/ sendResolved(lastTimestamp + 1)
    \/ sendRejected

ComposeSpec == Init /\ [][ComposeNext]_vars

\* the message list over time: messages of any content arrive with equal,
\* growing or falling timestamps while the panel is closed and opened
ListNext ==
    \/ \E message \in ListPayloads, timestamp \in Timestamps,
          from \in {<<Participant(<<"a", "l">>, <<"A", "l">>)>>, <<>>} :
         /\ Len(chatMessages) < MaxArrivals
         /\ MessageReceived(message, from, timestamp)
    \/ CloseChat
    \/ OpenChat

ListSpec == Init /\ [][ListNext]_vars

ChatSpec == ChatInit /\ [][ChatNext]_vars

\* a send that was started completes: the session answers every publish with
\* a result or an error
ChatLive == ChatSpec /\ WF_vars(settle)


(* ------------------------------------------------------------------ *)
(* Type invariant                                                     *)
(* ------------------------------------------------------------------ *)

TypeOK ==
    /\ layout \in Layouts
    /\ Local \in participants /\ participants \subseteq Ids
    /\ \A t \in tracks : t.participant \in participants
    /\ \A t, u \in tracks :
         t.participant = u.participant /\ t.source = u.source => t = u
    /\ thumbnailsCollapsed \in BOOLEAN /\ chatVisible \in BOOLEAN
    /\ pipCorner \in Corners /\ swapPiP \in BOOLEAN
    /\ isDragging \in BOOLEAN /\ hasMoved \in BOOLEAN
    /\ ~PiPShown => ~isDragging /\ ~hasMoved /\ transform = Unset

(* ------------------------------------------------------------------ *)
(* Render modes                                                       *)
(* ------------------------------------------------------------------ *)

CamMicTracks == {t \in tracks : t.source \in {Camera, Microphone}}
ShareTracks == {t \in tracks : t.source = ScreenShare}

\* C1: in every snapshot and for every value of the UI toggles exactly one of
\* the four render modes Cinema, Gallery-Grid, Gallery-PiP, Gallery-Empty is
\* rendered, never none and never two.
C1_ExactlyOneRenderMode == Cardinality(RenderModes) = 1

\* C2: Cinema is the render mode if and only if some screen-share track is
\* subscribed or published by the local participant and the screen-share
\* track list is non-empty, whatever the camera/microphone tracks, the
\* participant count, chatVisible, pipCorner and pipSwapped are.
C2_CinemaIffScreenShare ==
    ("Cinema" \in RenderModes) <=>
        /\ \E t \in ShareTracks : t.isSubscribed \/ t.isLocal
        /\ ShareTracks # {}

C2_Witness ==
    /\ RenderModes = {"Cinema"}
    /\ TrackRef(Local, ScreenShare, FALSE) \in tracks
    /\ Len(cameraTracks) = 2
    /\ participantCount = 3
    /\ ~chatVisible /\ swapPiP /\ pipCorner = "tl"

C4_EmptyIffNoTracksAndAlone ==
    ("GalleryEmpty" \in RenderModes) <=>
        /\ "Cinema" \notin RenderModes
        /\ CamMicTracks = {}
        /\ participantCount = 1

\* the same statement, of the layout with PiP alone
EmptyIffNoTracksAndAlone_WithPiP ==
    layout = WithPiP => C4_EmptyIffNoTracksAndAlone

(* ------------------------------------------------------------------ *)
(* Tiles and audio                                                    *)
(* ------------------------------------------------------------------ *)

TilesOf(p) == {i \in 1..Len(galleryTiles) : galleryTiles[i].participant = p}

\* C5: in the Gallery modes every participant has at most one tile, the
\* camera tile if the participant has a camera track and otherwise the
\* microphone tile; a participant with both never gets a microphone tile.
C5_OneTilePerParticipant ==
    ~CinemaShown =>
        \A p \in Ids :
            /\ Cardinality(TilesOf(p)) <= 1
            /\ \A i \in TilesOf(p) :
                 galleryTiles[i].source =
                    IF HasTrack(p, Camera) THEN Camera ELSE Microphone

\* the same statement, of the grid of the layout with PiP alone
OneTilePerParticipant_WithPiPGrid ==
    (layout = WithPiP /\ GridShown) => C5_OneTilePerParticipant

\* C6: in every render mode and for every chatVisible and thumbnailsCollapsed
\* every microphone track of the snapshot is in the hidden audio sink, the
\* ones whose tiles the de-duplication suppressed included.
C6_EveryMicrophoneAudible ==
    \A t \in tracks : t.source = Microphone => t \in Range(hiddenAudio)

\* the same statement, of the layout with PiP alone
EveryMicrophoneAudible_WithPiP ==
    layout = WithPiP => C6_EveryMicrophoneAudible

(* ------------------------------------------------------------------ *)
(* Picture in picture                                                 *)
(* ------------------------------------------------------------------ *)

OneLocalOneRemote ==
    /\ Len(filteredParticipantTracks) = 2
    /\ \E i, j \in 1..2 :
         filteredParticipantTracks[i].isLocal /\ ~filteredParticipantTracks[j].isLocal

\* C7: in Gallery-PiP with one local and one remote track the remote track
\* is the main tile and the local track the overlay while pipSwapped is
\* false, and the other way round while it is true.
C7_SwapInvertsAssignment ==
    (PiPShown /\ OneLocalOneRemote) =>
        /\ finalMain \in Range(filteredParticipantTracks)
        /\ finalPip \in Range(filteredParticipantTracks)
        /\ finalMain.isLocal = swapPiP
        /\ finalPip.isLocal = ~swapPiP

C7_Witness ==
    /\ PiPShown /\ OneLocalOneRemote /\ swapPiP
    /\ finalMain.isLocal /\ ~finalPip.isLocal

\* C24: in Gallery-PiP the main tile and the overlay always show two different
\* tracks, and together both of the two de-duplicated tracks, whether the
\* tracks are one local and one remote or both remote, and for both values
\* of pipSwapped.
C24_PiPShowsBothTracks ==
    PiPShown =>
        /\ finalMain # finalPip
        /\ {finalMain, finalPip} = Range(filteredParticipantTracks)

\* the same statement, while the tracks are not swapped or one of them is local
PiPShowsBothTracks_UnlessSwappedRemotes ==
    (PiPShown /\ (~swapPiP \/ OneLocalOneRemote)) => C24_PiPShowsBothTracks

\* C8: pipSwapped starts false; every double-click on the overlay flips it
\* and leaves pipCorner and chatVisible alone (so two in a row restore the
\* assignment), and no other event changes it.
C8_DoubleClickTogglesSwap ==
    /\ swapPiP = FALSE
    /\ [][/\ onDoubleClick =>
                /\ swapPiP' = ~swapPiP
                /\ pipCorner' = pipCorner
                /\ chatVisible' = chatVisible
          /\ swapPiP' # swapPiP => onDoubleClick]_vars

C8_Witness == swapPiP /\ pipCorner = "tl" /\ ~chatVisible /\ PiPShown

\* the displacement the last pointer move left in style.transform is below
\* the threshold on both axes
SmallAtRelease ==
    transform = Unset \/
        (Abs(transform[1]) < DragThreshold /\ Abs(transform[2]) < DragThreshold)

\* C9 as stated: a press / move* / release in which the pointer is less than
\* 5 pixels from the press point at release leaves pipCorner unchanged,
\* whatever path the pointer took in between.
C9_SmallAtReleaseKeepsCorner ==
    [][(handlePointerUp /\ SmallAtRelease) => pipCorner' = pipCorner]_vars

\* C9 amended: a press / move* / release in which no pointer move was more
\* than 5 pixels from the press point on either axis leaves pipCorner
\* unchanged, whatever the prior corner.
C9_NeverPastThresholdKeepsCorner ==
    [][(handlePointerUp /\ maxDev <= DragThreshold) => pipCorner' = pipCorner]_vars

C9_Witness ==
    /\ PiPShown /\ ~isDragging
    /\ startPos \in PressPoints
    /\ maxDev = DragThreshold
    /\ pipCorner = "tl"

\* C10: when a drag that went past the threshold is released, pipCorner is
\* the window quadrant that holds the overlay's centre at release (left of
\* half the width and above half the height is TL, and so on), whatever the
\* corner was before; every centre maps to exactly one corner.
C10_ReleaseSnapsToQuadrant ==
    rectCenter # Unset =>
        LET left == 2 * rectCenter[1] < WinW
            top == 2 * rectCenter[2] < WinH
        IN  /\ pipCorner \in Corners
            /\ (top /\ left) <=> pipCorner = "tl"
            /\ (top /\ ~left) <=> pipCorner = "tr"
            /\ (~top /\ left) <=> pipCorner = "bl"
            /\ (~top /\ ~left) <=> pipCorner = "br"

C10_Witness ==
    /\ rectCenter # Unset
    /\ 2 * rectCenter[1] = WinW
    /\ pipCorner = "tr"
    /\ maxDev > DragThreshold

(* ------------------------------------------------------------------ *)
(* Cinema main view                                                   *)
(* ------------------------------------------------------------------ *)

\* <VideoTrack trackRef={screenShareTrackRefs[0]} />
screenShareView == screenShareTrackRefs[1]

\* C25: in Cinema mode the track in the main area is a screen-share track
\* that made the screen share active, that is, one that is subscribed or
\* published by the local participant, for every list of screen-share
\* tracks, also where an unsubscribed remote one precedes the subscribed one.
C25_CinemaMainIsActiveShare ==
    CinemaShown => (screenShareView.isSubscribed \/ screenShareView.isLocal)

(* ------------------------------------------------------------------ *)
(* Cinema thumbnails                                                  *)
(* ------------------------------------------------------------------ *)

\* C11: in Cinema mode with c camera tracks exactly min(c, 6) thumbnails are
\* shown, the first six in list order; the "+N more" item is shown if and only
\* if c > 6, and then N = c - 6, so thumbnails plus N is always c.
C11_ThumbnailsAndMore ==
    CinemaShown =>
        LET c == Len(cameraTracks)
            n == IF moreRendered THEN moreCount ELSE 0
        IN  /\ Len(thumbnails) = (IF c < 6 THEN c ELSE 6)
            /\ \A i \in 1..Len(thumbnails) : thumbnails[i] = cameraTracks[i]
            /\ moreRendered <=> c > 6
            /\ moreRendered => moreCount = c - 6
            /\ Len(thumbnails) + n = c

C11_Witness ==
    /\ CinemaShown
    /\ Len(cameraTracks) = 8
    /\ Len(thumbnails) = 6
    /\ moreRendered /\ moreCount = 2

(* ------------------------------------------------------------------ *)
(* Connection indicator                                               *)
(* ------------------------------------------------------------------ *)

\* C12: whenever the transport state is any member of the enumeration other
\* than Connected the indicator shows the transport-state label instead of the
\* quality bars; the bars are shown only when the state is Connected.
C12_LabelUnlessConnected ==
    \A showLabel \in BOOLEAN :
        /\ connectionState # Connected => ConnectionQuality(showLabel).view = "state"
        /\ ConnectionQuality(showLabel).view = "quality" => connectionState = Connected

(* ------------------------------------------------------------------ *)
(* Chat payloads                                                      *)
(* ------------------------------------------------------------------ *)

Messages == {chatMessages[i] : i \in 1..Len(chatMessages)}
Sent == {outgoing[i] : i \in 1..Len(outgoing)}
IsString(v) == v.k = "string"

\* the payload classes of the envelope format: R is structured when it is the
\* text of a JSON object that has a text member
Structured(R) ==
    LET parsed == JSONparse(R)
    IN  parsed.ok /\ parsed.val.k = "object"
        /\ \E i \in 1..Len(parsed.val.members) : parsed.val.members[i].key = kText

\* C13: decoding and displaying an incoming chat message never throws, for
\* every raw string payload.
C13_DisplayNeverThrows ==
    \A entry \in Messages : ~CustomChatEntry(entry).threw

\* C14: for every raw string payload the decoded message is valid: its text
\* is a string, and replyTo is absent or an object whose id, sender and text
\* are all strings.
C14_DecodedIsValid ==
    \A entry \in Messages :
        LET decoded == content(entry)
            reply == Get(decoded, kReplyTo)
        IN  /\ IsString(Get(decoded, kText))
            /\ \/ reply = JUndefined
               \/ /\ reply.k = "object"
                  /\ IsString(Get(reply, kId))
                  /\ IsString(Get(reply, kSender))
                  /\ IsString(Get(reply, kText))

\* C15: a payload R is read as an envelope only when it parses as a JSON
\* object that has a text member; every other payload (no JSON, a JSON scalar,
\* null, an array, an object without text) is shown as the text R itself,
\* with no reply context.
C15_PlainTextFallsBack ==
    \A entry \in Messages :
        IF Structured(entry.message)
        THEN content(entry) = JSONparse(entry.message).val
        ELSE /\ content(entry) = JObj(<<Member(kText, JStr(entry.message))>>)
             /\ ~CustomChatEntry(entry).threw
             /\ CustomChatEntry(entry).text = JStr(entry.message)
             /\ CustomChatEntry(entry).replyContext = <<>>

C15_Witness ==
    /\ \E entry \in Messages :
         /\ entry.message = <<"{", "\"", "i", "d", "\"", ":", "\"", "x", "\"", "}">>
         /\ CustomChatEntry(entry).text = JStr(entry.message)
    /\ \E entry \in Messages : Structured(entry.message)

\* the message the session would show for a payload written to the channel
Echo(message) == ReceivedChatMessage(<<"m", "0">>, 0, message, <<LocalParticipant>>)

\* C16: for every string T, decoding the serialized envelope {text: T} yields
\* a message whose text is T and that has no replyTo, also when T looks like
\* JSON; so it is for every envelope the compose box sends without a reply.
C16_RoundTrip ==
    /\ \A T \in Texts :
         LET decoded == content(Echo(JSONstringify(Env(JStr(T)))))
         IN  decoded = Env(JStr(T))
    /\ \A o \in Sent :
         o.replyingTo = <<>> => content(Echo(o.message)) = Env(JStr(Trim(o.chatInput)))

C16_Witness ==
    \E entry \in Messages :
        /\ entry.from = <<LocalParticipant>>
        /\ content(entry) = Env(JStr(<<"{", "\"", "t", "e", "x", "t", "\"", ":", "\"", "a", "\"", "}">>))

\* C17: a reply to a legacy plaintext message whose payload is P carries
\* replyTo.text = P exactly; a reply to a structured envelope carries that
\* envelope's text.
C17_ReplyQuotesTargetText ==
    \A o \in Sent :
        o.replyingTo # <<>> =>
            LET target == o.replyingTo[1]
                quoted == Get(Get(content(Echo(o.message)), kReplyTo), kText)
            IN  IF Structured(target.message)
                THEN quoted = Get(JSONparse(target.message).val, kText)
                ELSE quoted = JStr(target.message)

C17_Witness ==
    /\ \E o \in Sent :
         /\ o.replyingTo # <<>>
         /\ o.replyingTo[1].message = <<"h", "i">>
         /\ Get(Get(JSONparse(o.message).val, kReplyTo), kText) = JStr(<<"h", "i">>)
    /\ pending = <<>>

\* C18: every outgoing envelope has the non-empty trimmed draft as its text
\* and carries replyTo exactly when a reply draft is set at the send; then
\* replyTo.id is the target's id, replyTo.sender the target author's name
\* (the identity when there is no name) and replyTo.text the target's decoded
\* text, all three populated strings.
C18_OutgoingEnvelope ==
    \A o \in Sent :
        LET envelope == JSONparse(o.message).val
            reply == Get(envelope, kReplyTo)
        IN  /\ Get(envelope, kText) = JStr(Trim(o.chatInput))
            /\ Trim(o.chatInput) # <<>>
            /\ HasKey(envelope, kReplyTo) <=> o.replyingTo # <<>>
            /\ o.replyingTo # <<>> =>
                 LET target == o.replyingTo[1]
                 IN  /\ Get(reply, kId) = JStr(target.id)
                     /\ target.from # <<>> =>
                          Get(reply, kSender) =
                              JStr(IF target.from[1].name # <<>> THEN target.from[1].name
                                   ELSE target.from[1].identity)
                     /\ Get(reply, kText) = Get(content(target), kText)
                     /\ \A key \in {kId, kSender, kText} : IsString(Get(reply, key))

(* ------------------------------------------------------------------ *)
(* Compose box                                                        *)
(* ------------------------------------------------------------------ *)

\* a send attempt: a click on the Send button or Enter in the input
attempt == SendClick \/ EnterKey

\* C19: at most one send is outstanding at any time: a send attempt (Send
\* click or Enter) made while a send is pending writes nothing to the channel
\* and changes no state, under every interleaving of input events and
\* completions; once the pending send has settled the next attempt with a
\* draft is accepted.
C19_OneSendOutstanding ==
    /\ [](Len(pending) <= 1)
    /\ [](pending # <<>> <=> isSending)
    /\ [][(pending # <<>> /\ attempt) => UNCHANGED vars]_vars
    /\ []((pending = <<>> /\ Trim(chatInput) # <<>>) => ~sendDisabled /\ ~inputDisabled)
    /\ [][(pending = <<>> /\ Trim(chatInput) # <<>> /\ attempt)
            => /\ outgoing' = Append(outgoing, [message |-> JSONstringify(payload),
                                                chatInput |-> chatInput,
                                                replyingTo |-> replyingTo])
               /\ pending' = <<JSONstringify(payload)>>]_vars

\* the second send of a run is on its way after the first one failed, and
\* while the first one was pending the Send button was disabled
C19_Witness ==
    /\ Len(outgoing) = 2 /\ Len(pending) = 1 /\ isSending
    /\ Len(chatMessages) = 1 /\ chatMessages[1].from # <<LocalParticipant>>
    /\ sendDisabled /\ inputDisabled
    /\ Trim(chatInput) # <<>>

\* the states of the compose box: Sending while a send is on its way, Idle
\* with no draft and no reply draft, Composing otherwise
Sending == isSending
Idle == ~isSending /\ chatInput = <<>> /\ replyingTo = <<>>
Composing == ~isSending /\ ~Idle

C21_ReplyDraftCleared ==
    [][/\ (replyingTo # <<>> /\ replyingTo' = <<>>)
            => (sendResolved(lastTimestamp + 1) \/ dismissReply)
       /\ sendResolved(lastTimestamp + 1) => (replyingTo' = <<>> /\ chatInput' = <<>>)
       /\ dismissReply => (replyingTo' = <<>> /\ chatInput' = chatInput)]_vars

\* a reply was sent and the success cleared its reply draft, and a draft text
\* was typed after it
C21_Witness ==
    /\ Len(outgoing) = 1 /\ outgoing[1].replyingTo # <<>> /\ pending = <<>>
    /\ \E entry \in Messages : entry.from = <<LocalParticipant>>
    /\ replyingTo = <<>>
    /\ Trim(chatInput) # <<>>

\* the reply draft the send that is under way was started with
carried == outgoing[Len(outgoing)].replyingTo

\* C26: a reply draft selected with the Reply button while an earlier send is
\* pending is still set after that send has completed: the completion of a
\* send clears only the reply draft the send itself carried.
C26_LaterReplyDraftSurvives ==
    [][(/\ pending # <<>>
        /\ replyingTo # <<>> /\ replyingTo # carried
        /\ settle) => replyingTo' = replyingTo]_vars

\* a step in which a send fails: it is pending no longer and no message of
\* the user's joins the list
rejection == Len(pending') < Len(pending) /\ chatMessages' = chatMessages

\* what the send under way was started with
invoked == outgoing[Len(outgoing)]

C28_PreviewIsQuotedText ==
    /\ replyingTo # <<>> =>
         /\ replyPreviewText(replyingTo[1]) = Get(content(replyingTo[1]), kText)
         /\ replyPreviewText(replyingTo[1]) = Get(replyTo(replyingTo[1]), kText)
    /\ \A o \in Sent :
         o.replyingTo # <<>> =>
             replyPreviewText(o.replyingTo[1])
                 = Get(Get(JSONparse(o.message).val, kReplyTo), kText)

\* the same statement, of the targets whose decoded text is truthy
PreviewIsQuotedText_WhereTruthy ==
    \A target \in Messages :
        Truthy(Get(content(target), kText)) =>
            /\ replyPreviewText(target) = Get(content(target), kText)
            /\ replyPreviewText(target) = Get(replyTo(target), kText)

\* text is draft without the white space at its two ends
Trimmed(draft, text) ==
    /\ text # <<>>
    /\ Head(text) \notin Whitespace /\ text[Len(text)] \notin Whitespace
    /\ \E a \in 1..Len(draft) :
         /\ a + Len(text) - 1 <= Len(draft)
         /\ SubSeq(draft, a, a + Len(text) - 1) = text
         /\ \A i \in 1..Len(draft) :
              (i < a \/ i > a + Len(text) - 1) => draft[i] \in Whitespace

Blank(draft) == \A i \in 1..Len(draft) : draft[i] \in Whitespace

\* C29: a send attempt with an empty or white-space-only draft is a no-op:
\* nothing is written to the channel, and the draft text, the reply draft and
\* the sending flag are unchanged; for a non-blank draft the text written to
\* the channel is the draft without its leading and trailing white space.
C29_BlankDraftIsNoOp ==
    /\ [](Blank(chatInput) => sendDisabled)
    /\ [][attempt =>
            IF Blank(chatInput)
            THEN UNCHANGED <<outgoing, pending, chatMessages, chatInput, replyingTo, isSending>>
            ELSE ~isSending =>
                   /\ Len(outgoing') = Len(outgoing) + 1
                   /\ pending' = <<outgoing'[Len(outgoing')].message>>
                   /\ JSONparse(outgoing'[Len(outgoing')].message).ok
                   /\ Get(JSONparse(outgoing'[Len(outgoing')].message).val, kText).k = "string"
                   /\ Trimmed(chatInput,
                              Get(JSONparse(outgoing'[Len(outgoing')].message).val, kText).s)]_vars

\* the draft " hi " was sent as hi, after the attempts the blank drafts before
\* it allowed
C29_Witness ==
    /\ Len(outgoing) = 1 /\ pending # <<>> /\ isSending
    /\ outgoing[1].chatInput = <<" ", "h", "i", " ">>
    /\ outgoing[1].message = <<"{", "\"", "t", "e", "x", "t", "\"", ":", "\"", "h", "i", "\"", "}">>
    /\ chatInput = outgoing[1].chatInput

(* ------------------------------------------------------------------ *)
(* Message list                                                       *)
(* ------------------------------------------------------------------ *)

\* the messages on the screen, from top to bottom
displayedMessages ==
    IF chatVisible /\ mounted
    THEN [i \in 1..Len(chatEntries) |-> chatEntries[i].entry]
    ELSE <<>>

\* C22: while the panel is shown the displayed list is exactly the sequence
\* of the messages that arrived, in arrival order: same length, same order,
\* nothing dropped, reordered or merged, also with equal contents or equal
\* timestamps; closing and opening the panel does not change it.
C22_ListIsArrivalSequence ==
    chatVisible => displayedMessages = chatMessages

\* the same statement, of the lists whose entries all render
ListIsArrivalSequence_WhereMounted ==
    /\ (chatVisible /\ mounted) => displayedMessages = chatMessages
    /\ ~chatVisible => chatEntries = <<>>

\* three messages on the screen, two of them with one timestamp and one
\* content, and the last one older than the first
ListWithEqualKeys ==
    /\ chatVisible /\ mounted
    /\ Len(displayedMessages) = 3
    /\ displayedMessages[1].timestamp = displayedMessages[2].timestamp
    /\ displayedMessages[1].message = displayedMessages[2].message
    /\ displayedMessages[3].timestamp < displayedMessages[1].timestamp

(* ------------------------------------------------------------------ *)
(* Author colours                                                     *)
(* ------------------------------------------------------------------ *)

\* author keys: the empty string, short names, and names long enough for the
\* hash to leave the 32 bits of its shift
AuthorKeys ==
    {<<>>, <<"A", "l">>, <<"b", "o">>, <<"M", "o">>, <<"M", "e">>,
     <<"z", "z", "z", "z", "z", "z", "z", "z", "z", "z", "z", "z">>,
     <<"S", "i", "m", "a", "r", "j", "e", "e", "t", " ", "S", "i", "n", "g", "h">>}

Palette == {USER_COLORS[i] : i \in 1..Len(USER_COLORS)}

\* the key an entry is coloured by: the name, else the identity
authorKey(entry) == nameOr(entry.from, <<"M", "e">>)

\* the colour is a total function of the key, with values in the palette of
\* nine, and entries with one key have one colour
ColourIsTotalAndDeterministic ==
    /\ Cardinality(Palette) = 9
    /\ \A id \in AuthorKeys :
         ~getUserColor(JStr(id)).threw /\ getUserColor(JStr(id)).color \in Palette
    /\ \A entry \in Messages :
         (mounted /\ entry.from # <<>>) =>
             CustomChatEntry(entry).authorColor = getUserColor(JStr(authorKey(entry))).color
    /\ \A e1, e2 \in Messages :
         (mounted /\ authorKey(e1) = authorKey(e2) /\ (e1.from = <<>> <=> e2.from = <<>>)) =>
             CustomChatEntry(e1).authorColor = CustomChatEntry(e2).authorColor

\* C23: the author colour is a total deterministic function of the display
\* name (the identity where there is no name): for every string, the empty
\* one and ones that overflow the 32-bit shift included, it is one of the 9
\* palette colours, two messages with one author key have one colour, and a
\* message of the local participant is never given a palette colour.
C23_AuthorColour ==
    /\ ColourIsTotalAndDeterministic
    /\ \A entry \in Messages :
         (mounted /\ entry.from = <<LocalParticipant>>) =>
             CustomChatEntry(entry).authorColor \notin Palette

====
